---- MODULE Spec2Model ----
(***************************************************************************)
(* A model of the pool allocator of memory_manager.c.                      *)
(*                                                                         *)
(* The file holds two variants of the allocator under the same names:      *)
(*   variant 1 (lines 1-167):   no lock, mem_alloc rounds the size up to   *)
(*                              a multiple of 8;                            *)
(*   variant 2 (lines 169-356): a pthread mutex around mem_alloc, mem_free *)
(*                              and mem_resize, mem_alloc does not round.  *)
(* The variant is fixed in the initial state.  The descriptors live in a   *)
(* heap of records linked by next/prev, as in the C code; a pointer into   *)
(* the pool is its offset from m_block.  The code only follows descriptor   *)
(* pointers and tests them against NULL, so the addresses malloc hands out  *)
(* do not matter: the heap is kept up to a renaming of its cells (Canon).   *)
(*                                                                         *)
(* Not modelled: a failing system malloc (of the pool or of a descriptor), *)
(* and the dead test `size < 0` of mem_init (size_t is unsigned).          *)
(***************************************************************************)
EXTENDS Integers, FiniteSets, Sequences, TLC

\* ------------------------------------------------------------- bounds
\* size_t is modelled SizeBits wide: sizes are taken modulo 2^SizeBits.
SizeBits == 6
\* The capacity handed to mem_init.
MaxPool == 32
\* The number of descriptors the system heap can hold at once.
MaxBlocks == 4

RECURSIVE Pow2(_)
Pow2(n) == IF n = 0 THEN 1 ELSE 2 * Pow2(n - 1)
SizeMod == Pow2(SizeBits)
SIZE_MAX == SizeMod - 1

\* ---------------------------------------------------------- constants
NULL == 0                  \* the null descriptor pointer
NullPtr == -1              \* the null pool pointer (pool pointers are offsets >= 0)
Wild == MaxPool + 1        \* a pointer outside the pool, never a descriptor base

PoolSizes == {0, MaxPool}
\* Request sizes: zero, a multiple of 8, a size the rounding changes, a size
\* larger than the pool, and the largest size_t (whose rounding wraps to 0).
ReqSizes == {0, 8, 12, MaxPool + 8, SIZE_MAX}
BlockIds == 1..MaxBlocks

VARIABLES
    variant,      \* 1 or 2: which variant of the file is built
    first_block,  \* static MemoryBlock* first_block
    blocks,       \* the descriptors on the system heap: id -> MemoryBlock
    m_block,      \* the pool buffer: "null", "live", "freed", or "refreed"
                  \* once free() was given the freed buffer again
    m_size,       \* static size_t m_size
    lock,         \* the mutex of variant 2: 0 free, 1 held
    pc,           \* "ready", or how the last call ended: "fault", "blocked"
    last,         \* the last call: operation, arguments, result
    pre,          \* the directory as it was when the last call began
    test          \* the local variables of a test driver (idle under Spec)

vars == <<variant, first_block, blocks, m_block, m_size, lock, pc, last, pre, test>>

\* ------------------------------------------------------ the descriptor heap
EmptyHeap == [i \in {} |-> 0]

MemoryBlock(ptr, size, free, next, prev) ==
    [ptr |-> ptr, size |-> size, free |-> free, next |-> next, prev |-> prev]

\* malloc(sizeof(MemoryBlock)): the lowest unused descriptor cell.  With every
\* cell in use it yields NoCell, and HeapFits keeps such a call out of the model.
NoCell == MaxBlocks + 1
malloc(blk) ==
    IF BlockIds \ DOMAIN blk = {} THEN NoCell
    ELSE CHOOSE i \in BlockIds \ DOMAIN blk : \A j \in BlockIds \ DOMAIN blk : i <= j

HeapFits(blk) == NoCell \notin DOMAIN blk

\* free(block): the cell leaves the heap.
sys_free(blk, b) == [i \in DOMAIN blk \ {b} |-> blk[i]]

\* add_mem without the back link of the successor: next->prev still names
\* the descriptor that was split.
add_mem_no_back_link(blk, ptr, size, free, prev, next) ==
    IF size = 0 THEN [blk |-> blk, ret |-> next]
    ELSE LET new_block == malloc(blk)
             b1 == (new_block :> MemoryBlock(ptr, size, free, next, prev)) @@ blk
             b2 == IF prev # NULL THEN [b1 EXCEPT ![prev].next = new_block] ELSE b1
         IN  [blk |-> b2, ret |-> new_block]

\* add_mem: returns the heap and the returned descriptor pointer.
add_mem(blk, ptr, size, free, prev, next) ==
    IF size = 0 THEN [blk |-> blk, ret |-> next]
    ELSE LET new_block == malloc(blk)
             b1 == (new_block :> MemoryBlock(ptr, size, free, next, prev)) @@ blk
             b2 == IF prev # NULL THEN [b1 EXCEPT ![prev].next = new_block] ELSE b1
             b3 == IF next # NULL THEN [b2 EXCEPT ![next].prev = new_block] ELSE b2
         IN  [blk |-> b3, ret |-> new_block]

\* split_mem with next_ptr taken before the size is stored: the remainder
\* starts where the unsplit descriptor ended.
split_mem_stale_ptr(blk, current_block, size) ==
    LET new_size == (blk[current_block].size - size) % SizeMod
        next_ptr == blk[current_block].ptr + blk[current_block].size
        b1 == [blk EXCEPT ![current_block].free = 0, ![current_block].size = size]
        r == add_mem(b1, next_ptr, new_size, 1, current_block, b1[current_block].next)
    IN  [r.blk EXCEPT ![current_block].next = r.ret]

split_mem(blk, current_block, size) ==
    LET new_size == (blk[current_block].size - size) % SizeMod
        b1 == [blk EXCEPT ![current_block].free = 0, ![current_block].size = size]
        next_ptr == b1[current_block].ptr + b1[current_block].size
        r == add_mem(b1, next_ptr, new_size, 1, current_block, b1[current_block].next)
    IN  [r.blk EXCEPT ![current_block].next = r.ret]

merge_mem(blk, block1, block2) ==
    IF block1 = NULL \/ block2 = NULL THEN blk
    ELSE IF blk[block1].free = 0 \/ blk[block2].free = 0 THEN blk
    ELSE LET nxt == blk[block2].next
             b1 == [blk EXCEPT ![block1].next = nxt,
                               ![block1].size = (blk[block1].size + blk[block2].size) % SizeMod]
             b2 == IF nxt # NULL THEN [b1 EXCEPT ![nxt].prev = block1] ELSE b1
         IN  sys_free(b2, block2)

\* The while loop of get_block: the first descriptor whose ptr is `block`.
RECURSIVE get_block_scan(_, _, _)
get_block_scan(blk, current_block, block) ==
    IF current_block # NULL /\ blk[current_block].ptr # block
    THEN get_block_scan(blk, blk[current_block].next, block)
    ELSE current_block

\* get_block reads current_block->ptr before it tests current_block == NULL:
\* when the scan ends at NULL that read is a null dereference.  It either
\* faults, or yields some value and the function returns NULL.
Fault == -2
get_block(blk, first, block) ==
    LET current_block == get_block_scan(blk, first, block)
    IN  IF current_block = NULL THEN {Fault, NULL} ELSE {current_block}

\* (size+7)&~7 in size_t arithmetic.
round8(size) ==
    LET t == (size + 7) % SizeMod IN t - (t % 8)

\* first_fit with <= for <: a free descriptor of exactly `size` is passed over.
RECURSIVE first_fit_strict(_, _, _)
first_fit_strict(blk, current_block, size) ==
    IF current_block # NULL
       /\ (blk[current_block].free # 1 \/ blk[current_block].size <= size)
    THEN first_fit_strict(blk, blk[current_block].next, size)
    ELSE current_block

\* The while loop of mem_alloc: the first free descriptor of at least `size`.
RECURSIVE first_fit(_, _, _)
first_fit(blk, current_block, size) ==
    IF current_block # NULL
       /\ (blk[current_block].free # 1 \/ blk[current_block].size < size)
    THEN first_fit(blk, blk[current_block].next, size)
    ELSE current_block

\* The size mem_alloc searches for: rounded in variant 1, as given in variant 2.
alloc_size(v, size) == IF v = 1 THEN round8(size) ELSE size

\* mem_alloc claiming the first free descriptor before it looks at its size,
\* and giving up without releasing it when it is too small.
RECURSIVE first_free(_, _)
first_free(blk, current_block) ==
    IF current_block # NULL /\ blk[current_block].free # 1
    THEN first_free(blk, blk[current_block].next)
    ELSE current_block

alloc_body_claims_first(blk, first, size) ==
    LET current_block == first_free(blk, first)
    IN  IF current_block = NULL THEN [blk |-> blk, ret |-> NullPtr]
        ELSE IF blk[current_block].size < size
        THEN [blk |-> [blk EXCEPT ![current_block].free = 0], ret |-> NullPtr]
        ELSE [blk |-> split_mem(blk, current_block, size),
              ret |-> blk[current_block].ptr]

\* The body of mem_alloc: the heap after the call and the returned pointer.
alloc_body(blk, first, size) ==
    LET current_block == first_fit(blk, first, size)
    IN  IF current_block = NULL THEN [blk |-> blk, ret |-> NullPtr]
        ELSE [blk |-> split_mem(blk, current_block, size),
              ret |-> blk[current_block].ptr]

\* The body of mem_free once get_block has found current_block.
free_body(blk, current_block) ==
    LET b1 == [blk EXCEPT ![current_block].free = 1]
        b2 == merge_mem(b1, current_block, b1[current_block].next)
    IN  merge_mem(b2, b2[current_block].prev, current_block)

\* ------------------------------------------------------------ the program
Directory == [first |-> first_block, blocks |-> blocks]

\* The descriptor pointers reachable from `first` through next, in order.
RECURSIVE ChainIds(_, _, _)
ChainIds(blk, current_block, fuel) ==
    IF current_block = NULL \/ fuel = 0 THEN <<>>
    ELSE <<current_block>> \o ChainIds(blk, blk[current_block].next, fuel - 1)

RECURSIVE Ascending(_)
Ascending(S) ==
    IF S = {} THEN <<>>
    ELSE LET m == CHOOSE x \in S : \A y \in S : x <= y
         IN  <<m>> \o Ascending(S \ {m})

\* The heap with its cells renamed: the chain's cells first, in chain order,
\* then any cell the chain does not reach.  Every next and prev follows.
Canon(first, blk) ==
    LET c == ChainIds(blk, first, MaxBlocks + 1)
        order == c \o Ascending(DOMAIN blk \ {c[i] : i \in 1..Len(c)})
        ren(id) == IF id = NULL THEN NULL
                   ELSE CHOOSE j \in 1..Len(order) : order[j] = id
    IN  [first |-> ren(first),
         blocks |-> [j \in 1..Len(order) |->
                       [blk[order[j]] EXCEPT !.next = ren(@), !.prev = ren(@)]]]

\* The directory a call leaves behind.
Leaves(first, blk) ==
    /\ HeapFits(blk)
    /\ first_block' = Canon(first, blk).first
    /\ blocks' = Canon(first, blk).blocks

\* A call record.  `again` marks a mem_free of the pointer that the call just
\* before it, a completed mem_free, was given and found allocated; `copy` is
\* the memcpy the call made, <<destination, source, length>>.
NoCopy == <<>>
Call(op, ptr, size, ret) ==
    [op |-> op, ptr |-> ptr, size |-> size, ret |-> ret,
     again |-> FALSE, copy |-> NoCopy]

NoTest == [step |-> 0, pA |-> NullPtr, pB |-> NullPtr, first |-> "none"]

Init ==
    /\ variant \in {1, 2}
    /\ first_block = NULL
    /\ blocks = EmptyHeap
    /\ m_block = "null"
    /\ m_size = 0
    /\ lock = 0
    /\ pc = "ready"
    /\ last = Call("none", NullPtr, 0, NullPtr)
    /\ pre = [first |-> NULL, blocks |-> EmptyHeap]
    /\ test = NoTest

\* mem_init.  On a pool that is live the old buffer and the old descriptors
\* are not released: nothing points to them any more, they leave the model.
mem_init(size) ==
    /\ pc = "ready"
    /\ LET r == add_mem(EmptyHeap, 0, size, 1, NULL, NULL)
       IN  Leaves(r.ret, r.blk)
    /\ m_block' = "live"
    /\ m_size' = size
    /\ last' = Call("init", NullPtr, size, NullPtr)
    /\ pre' = Directory
    /\ UNCHANGED <<variant, lock, pc>>

mem_alloc(size) ==
    /\ pc = "ready"
    /\ LET r == alloc_body(blocks, first_block, alloc_size(variant, size))
       IN  /\ Leaves(first_block, r.blk)
           /\ last' = Call("alloc", NullPtr, size, r.ret)
    /\ pre' = Directory
    /\ UNCHANGED <<variant, m_block, m_size, lock, pc>>

\* The pointers a caller may pass: null, a pointer outside the pool, every
\* descriptor base, and the pointer the last call was given (which that call
\* may have made stale).
PtrArgs ==
    {NullPtr, Wild, last.ptr} \cup {blocks[i].ptr : i \in DOMAIN blocks}

\* The pointer was the base of an allocated descriptor when the last call began.
PreAllocatedAt(block) ==
    \E i \in DOMAIN pre.blocks : pre.blocks[i].ptr = block /\ pre.blocks[i].free = 0

\* mem_free.  Variant 2 returns at once on NULL; variant 1 hands NULL to
\* get_block like any other pointer.
mem_free(block) ==
    /\ pc = "ready"
    /\ last' = [Call("free", block, 0, NullPtr) EXCEPT
                  !.again = last.op = "free" /\ last.ptr = block /\ PreAllocatedAt(block)]
    /\ pre' = Directory
    /\ IF variant = 2 /\ block = NullPtr
       THEN UNCHANGED <<first_block, blocks, lock, pc>>
       ELSE \E current_block \in get_block(blocks, first_block, block) :
              CASE current_block = Fault ->
                     /\ pc' = "fault"
                     /\ lock' = IF variant = 2 THEN 1 ELSE lock
                     /\ UNCHANGED <<first_block, blocks>>
                [] current_block = NULL ->
                     UNCHANGED <<first_block, blocks, lock, pc>>
                [] OTHER ->
                     /\ Leaves(first_block, free_body(blocks, current_block))
                     /\ UNCHANGED <<lock, pc>>
    /\ UNCHANGED <<variant, m_block, m_size>>

\* mem_resize once get_block has found current_block: the speculative merge
\* with the successor, then the split in place or the relocation through
\* mem_alloc.  Variant 2 calls mem_alloc with the mutex held, and mem_alloc
\* locks it again: the mutex is a zero-filled static, a normal mutex, so the
\* second lock never returns and the call stays blocked in mem_alloc.  `n` is
\* the size as the caller gave it, `size` the rounded one.
resize_found(current_block, block, n, size) ==
    LET old_size == blocks[current_block].size
        b1 == [blocks EXCEPT ![current_block].free = 1]
        b2 == merge_mem(b1, current_block, b1[current_block].next)
    IN  IF b2[current_block].size >= size
        THEN /\ Leaves(first_block, split_mem(b2, current_block, size))
             /\ last' = Call("resize", block, n, b2[current_block].ptr)
             /\ UNCHANGED <<lock, pc>>
        ELSE IF variant = 2
        THEN /\ Leaves(first_block, b2)
             /\ pc' = "blocked"
             /\ lock' = 1
             /\ last' = Call("resize", block, n, NullPtr)
        ELSE LET r == alloc_body(b2, first_block, alloc_size(variant, size))
             IN  /\ IF r.ret = NullPtr
                    THEN Leaves(first_block, [b2 EXCEPT ![current_block].free = 0])
                    ELSE Leaves(first_block, r.blk)
                 /\ last' = IF r.ret = NullPtr
                            THEN Call("resize", block, n, NullPtr)
                            ELSE [Call("resize", block, n, r.ret) EXCEPT
                                    !.copy = <<r.ret, b2[current_block].ptr, old_size>>]
                 /\ UNCHANGED <<lock, pc>>

mem_resize(block, n) ==
    /\ pc = "ready"
    /\ pre' = Directory
    /\ LET size == round8(n)
       IN \E current_block \in get_block(blocks, first_block, block) :
            CASE current_block = Fault ->
                   /\ pc' = "fault"
                   /\ lock' = IF variant = 2 THEN 1 ELSE lock
                   /\ last' = Call("resize", block, n, NullPtr)
                   /\ UNCHANGED <<first_block, blocks>>
              [] current_block = NULL ->
                   /\ last' = Call("resize", block, n, NullPtr)
                   /\ UNCHANGED <<first_block, blocks, lock, pc>>
              [] OTHER ->
                   resize_found(current_block, block, n, size)
    /\ UNCHANGED <<variant, m_block, m_size>>

\* mem_deinit: every descriptor and the pool buffer go back to the system.
\* m_block keeps its value, so on a pool already deinitialized free(m_block)
\* frees the buffer a second time, which is undefined: the call aborts or
\* goes on.
mem_deinit ==
    /\ pc = "ready"
    /\ blocks' = EmptyHeap
    /\ first_block' = NULL
    /\ m_block' = CASE m_block = "null" -> "null"
                   [] m_block = "live" -> "freed"
                   [] OTHER -> "refreed"
    /\ pc' \in IF m_block \in {"freed", "refreed"} THEN {"ready", "fault"} ELSE {"ready"}
    /\ last' = Call("deinit", NullPtr, 0, NullPtr)
    /\ pre' = Directory
    /\ UNCHANGED <<variant, m_size, lock>>

\* Any client: every call with every argument, in any order.
CallInit == \E size \in PoolSizes : mem_init(size) /\ UNCHANGED test
CallAlloc == \E size \in ReqSizes : mem_alloc(size) /\ UNCHANGED test
CallFree == \E block \in PtrArgs : mem_free(block) /\ UNCHANGED test
CallResize ==
    \E block \in PtrArgs : \E n \in ReqSizes : mem_resize(block, n) /\ UNCHANGED test
CallDeinit == mem_deinit /\ UNCHANGED test

Next == CallInit \/ CallAlloc \/ CallFree \/ CallResize \/ CallDeinit

Spec == Init /\ [][Next]_vars

\* --------------------------------------------------- the directory, read
\* The descriptors reachable from the head through next, in order.
ChainOf(dir) ==
    LET c == ChainIds(dir.blocks, dir.first, MaxBlocks + 1)
    IN  [i \in 1..Len(c) |-> dir.blocks[c[i]]]
Chain == ChainOf(Directory)
PreChain == ChainOf(pre)

RECURSIVE SumSizes(_)
SumSizes(c) == IF c = <<>> THEN 0 ELSE Head(c).size + SumSizes(Tail(c))

Partitions(c, capacity) ==
    /\ c # <<>> => c[1].ptr = 0
    /\ \A i \in 1..(Len(c) - 1) : c[i + 1].ptr = c[i].ptr + c[i].size
    /\ SumSizes(c) = capacity

NoAdjacentFree(c) ==
    \A i \in 1..(Len(c) - 1) : ~(c[i].free = 1 /\ c[i + 1].free = 1)

Completed(op) == pc = "ready" /\ last.op = op

\* The pool is initialised and no call is in flight.
AtRest == pc = "ready" /\ m_block = "live"

\* The descriptors of a chain whose base is `block`.
At(c, block) == {i \in 1..Len(c) : c[i].ptr = block}

\* The free descriptors of a chain that hold at least `size` bytes.
Fits(c, size) == {i \in 1..Len(c) : c[i].free = 1 /\ c[i].size >= size}

Min(S) == CHOOSE x \in S : \A y \in S : x <= y

\* ------------------------------------------------------------------ C1
\* C1: after mem_init(S) and any completed mem_alloc, mem_free and mem_resize
\* calls, the chain from first_block partitions the pool: the first
\* descriptor starts at the pool base, each next one starts where its
\* predecessor ends, and the sizes sum to S.
C1_Partition == AtRest => Partitions(Chain, m_size)

\* A relocating mem_resize has left three descriptors behind.
C1_Witness ==
    /\ AtRest /\ last.op = "resize"
    /\ last.ret \notin {NullPtr, last.ptr}
    /\ Len(Chain) = 3

\* ------------------------------------------------------------------ C2
\* C2: whenever no call is in flight, no free descriptor of the chain has a
\* free successor.
C2_NoAdjacentFree == pc = "ready" => NoAdjacentFree(Chain)

\* ------------------------------------------------------------------ C3
\* C3: mem_alloc(size) succeeds exactly when some free descriptor holds the
\* requested size (after the rounding of the variant), and then returns the
\* lowest base among the free descriptors that hold it.
C3_FirstFit ==
    Completed("alloc") =>
        LET fits == Fits(PreChain, alloc_size(variant, last.size))
        IN  /\ (last.ret # NullPtr) <=> (fits # {})
            /\ fits # {} => last.ret = Min({PreChain[i].ptr : i \in fits})

\* mem_alloc has succeeded past a free descriptor too small for the request.
C3_Witness ==
    /\ Completed("alloc") /\ last.ret # NullPtr
    /\ \E i \in 1..Len(PreChain) :
          /\ PreChain[i].free = 1
          /\ PreChain[i].size < alloc_size(variant, last.size)
          /\ PreChain[i].ptr < last.ret

\* ------------------------------------------------------------------ C4
\* C4: when mem_alloc returns NULL the directory is as it was before the
\* call: the same descriptors, bases, sizes, free flags and links.
C4_AllocFailureKeepsDirectory ==
    (Completed("alloc") /\ last.ret = NullPtr) => Directory = pre

\* mem_alloc has failed on a pool that has a free descriptor.
C4_Witness ==
    /\ Completed("alloc") /\ last.ret = NullPtr
    /\ \E i \in 1..Len(PreChain) : PreChain[i].free = 1 /\ PreChain[i].size > 0

\* ------------------------------------------------------------------ C5
\* C5: mem_free(p) with p the base of no descriptor of the chain returns
\* normally and leaves the directory unchanged.
C5_FreeUnknownIsNoOp ==
    (last.op = "free" /\ At(PreChain, last.ptr) = {}) =>
        (pc = "ready" /\ Directory = pre)

\* ------------------------------------------------------------------ C6
\* C6: a second mem_free(p) right after a mem_free(p) that found p allocated
\* returns normally and leaves the directory as the first call left it, with
\* the partition and no two adjacent free descriptors.
C6_DoubleFreeSafe ==
    (last.op = "free" /\ last.again) =>
        /\ pc = "ready"
        /\ Directory = pre
        /\ m_block = "live" => Partitions(Chain, m_size)
        /\ NoAdjacentFree(Chain)

\* ------------------------------------------------------------------ C7
\* The coalescing test: on a fresh pool pA = mem_alloc(A) and pB =
\* mem_alloc(B) both succeed, then both pointers are freed, in either order.
CoalesceSizes == {n \in 0..MaxPool : n % 4 = 0}

TestInit ==
    /\ test.step = 0
    /\ \E size \in PoolSizes : mem_init(size)
    /\ test' = [test EXCEPT !.step = 1]

TestAllocA ==
    /\ test.step = 1
    /\ \E A \in CoalesceSizes : mem_alloc(A)
    /\ last'.ret # NullPtr
    /\ test' = [test EXCEPT !.step = 2, !.pA = last'.ret]

TestAllocB ==
    /\ test.step = 2
    /\ \E B \in CoalesceSizes : mem_alloc(B)
    /\ last'.ret # NullPtr
    /\ test' = [test EXCEPT !.step = 3, !.pB = last'.ret]

TestFreeFirst ==
    /\ test.step = 3
    /\ \E f \in {"A", "B"} :
          /\ mem_free(IF f = "A" THEN test.pA ELSE test.pB)
          /\ test' = [test EXCEPT !.step = 4, !.first = f]

TestFreeSecond ==
    /\ test.step = 4
    /\ mem_free(IF test.first = "A" THEN test.pB ELSE test.pA)
    /\ test' = [test EXCEPT !.step = 5]

NextCoalesce ==
    TestInit \/ TestAllocA \/ TestAllocB \/ TestFreeFirst \/ TestFreeSecond

SpecCoalesce == Init /\ [][NextCoalesce]_vars

\* C7: once both pointers are freed, in either order, the chain is a single
\* free descriptor spanning the whole pool: no two adjacent free descriptors
\* and no block that stays allocated.
C7_CoalesceEitherOrder ==
    test.step = 5 =>
        /\ pc = "ready"
        /\ Len(Chain) = 1
        /\ Chain[1].free = 1
        /\ Chain[1].size = m_size

\* ------------------------------------------------------------------ C8
\* C8: when mem_resize(p, n) on an allocated block returns NULL, the
\* directory is as it was before the call and no byte of the pool was copied.
C8_ResizeFailureKeepsDirectory ==
    (Completed("resize") /\ last.ret = NullPtr /\ PreAllocatedAt(last.ptr)) =>
        (Directory = pre /\ last.copy = NoCopy)

\* ------------------------------------------------------------------ C9
\* C9: if p is the base of an allocated descriptor whose size plus the size
\* of a free descriptor right after it is at least the rounded n, then
\* mem_resize(p, n) returns p, the descriptor at p is allocated with the
\* rounded size, and any remainder is a free descriptor right after it.
GrowsInPlace(c, i, size) ==
    /\ c[i].free = 0
    /\ c[i].size + (IF i < Len(c) /\ c[i + 1].free = 1 THEN c[i + 1].size ELSE 0) >= size

C9_GrowInPlace ==
    (last.op = "resize"
       /\ \E i \in At(PreChain, last.ptr) : GrowsInPlace(PreChain, i, round8(last.size))) =>
        /\ pc = "ready"
        /\ last.ret = last.ptr
        /\ \E j \in At(Chain, last.ptr) :
              /\ Chain[j].free = 0
              /\ Chain[j].size = round8(last.size)

\* ------------------------------------------------------------------ C10
\* C10: mem_resize(p, n) with p the base of no allocated descriptor returns
\* NULL normally and leaves the directory unchanged.
C10_ResizeUntrackedFails ==
    (last.op = "resize" /\ ~PreAllocatedAt(last.ptr)) =>
        (pc = "ready" /\ last.ret = NullPtr /\ Directory = pre)

\* ------------------------------------------------------------------ C11
\* C11: mem_deinit returns normally and hands nothing to the system free()
\* a second time: on a pool already deinitialized, or never initialized, it
\* is a no-op.
C11_DeinitIdempotent ==
    /\ m_block # "refreed"
    /\ last.op = "deinit" => pc = "ready"

\* ---------------------------------------------- variant 2 under threads
\* The calls of variant 2, statement by statement, made by threads that share
\* one initialised pool.  `test` holds each thread's locals.  A thread owns at
\* most one pointer: it allocates, may resize what it owns, and frees it.
\* Statements that run with the mutex held are one step together with the
\* unlock that ends them; a statement that touches the directory without the
\* mutex is a step of its own.  The descriptor cells keep their addresses
\* here (no renaming), since a thread holds one across steps.
NumThreads == 2
\* The number of calls a thread makes.
MaxCalls == 3

Threads == 1..NumThreads
ThreadSizes == {0, 8, MaxPool + 8}

\* pc: "idle" between calls, else the statement the thread is at:
\*   "alloc_head"  mem_alloc line 265, current_block = first_block
\*   "alloc_lock"  mem_alloc line 267, pthread_mutex_lock
\*   "alloc_scan"  mem_alloc lines 268-277, the scan, the split, the unlock
\*   "alloc_ret"   mem_alloc line 278, return current_block->ptr
\*   "free_lock"   mem_free line 290,   "free_body"   lines 291-299
\*   "resize_lock" mem_resize line 313, "resize_body" lines 314-329 and 339
\* call: the call of the client the thread is in; size: the size argument;
\* cur: current_block of mem_alloc; own: the pointer the thread owns.
IdleThread ==
    [pc |-> "idle", call |-> "none", size |-> 0, cur |-> NULL,
     own |-> NullPtr, calls |-> 0]

InitThreads ==
    /\ variant = 2
    /\ \E size \in PoolSizes :
          LET r == add_mem(EmptyHeap, 0, size, 1, NULL, NULL)
          IN  /\ first_block = r.ret
              /\ blocks = r.blk
              /\ m_size = size
    /\ m_block = "live"
    /\ lock = 0
    /\ pc = "ready"
    /\ last = Call("init", NullPtr, m_size, NullPtr)
    /\ pre = [first |-> NULL, blocks |-> EmptyHeap]
    /\ test = [t \in Threads |-> IdleThread]

\* What a thread step leaves alone.
Shared == <<variant, first_block, m_block, m_size, last, pre>>

Goes(t, r) == test' = [test EXCEPT ![t] = r]

Returns(t, ptr) ==
    Goes(t, [test[t] EXCEPT !.pc = "idle", !.call = "none", !.own = ptr])

BeginAlloc(t) ==
    /\ pc = "ready" /\ test[t].pc = "idle"
    /\ test[t].own = NullPtr /\ test[t].calls < MaxCalls
    /\ \E size \in ThreadSizes :
          Goes(t, [test[t] EXCEPT !.pc = "alloc_head", !.call = "alloc",
                                  !.size = size, !.calls = @ + 1])
    /\ UNCHANGED <<Shared, blocks, lock, pc>>

\* Line 265: the head is read before the mutex is taken.
AllocHead(t) ==
    /\ pc = "ready" /\ test[t].pc = "alloc_head"
    /\ Goes(t, [test[t] EXCEPT !.pc = "alloc_lock", !.cur = first_block])
    /\ UNCHANGED <<Shared, blocks, lock, pc>>

\* Line 267.  The mutex is a normal one: a thread that holds it and locks it
\* again waits for itself.
AllocLock(t) ==
    /\ pc = "ready" /\ test[t].pc = "alloc_lock"
    /\ lock = 0
    /\ lock' = t
    /\ Goes(t, [test[t] EXCEPT !.pc = "alloc_scan"])
    /\ UNCHANGED <<Shared, blocks, pc>>

\* Lines 268-277: the scan from the head read at line 265, then the failure
\* return or the split, and the unlock.
AllocScan(t) ==
    /\ pc = "ready" /\ test[t].pc = "alloc_scan"
    /\ LET current_block == first_fit(blocks, test[t].cur, test[t].size)
       IN  IF current_block = NULL
           THEN /\ Returns(t, NullPtr)
                /\ UNCHANGED blocks
           ELSE /\ blocks' = split_mem(blocks, current_block, test[t].size)
                /\ HeapFits(blocks')
                /\ Goes(t, [test[t] EXCEPT !.pc = "alloc_ret", !.cur = current_block])
    /\ lock' = 0
    /\ UNCHANGED <<Shared, pc>>

\* Line 278: current_block->ptr is read after the unlock.  Had the descriptor
\* been released meanwhile, the read would be of freed memory.
AllocRet(t) ==
    /\ pc = "ready" /\ test[t].pc = "alloc_ret"
    /\ IF test[t].cur \in DOMAIN blocks
       THEN Returns(t, blocks[test[t].cur].ptr) /\ UNCHANGED pc
       ELSE \/ \E ptr \in 0..MaxPool : Returns(t, ptr) /\ UNCHANGED pc
            \/ pc' = "fault" /\ UNCHANGED test
    /\ UNCHANGED <<Shared, blocks, lock>>

\* Line 288 is passed: the pointer a thread owns is not NULL.
BeginFree(t) ==
    /\ pc = "ready" /\ test[t].pc = "idle"
    /\ test[t].own # NullPtr /\ test[t].calls < MaxCalls
    /\ Goes(t, [test[t] EXCEPT !.pc = "free_lock", !.call = "free", !.calls = @ + 1])
    /\ UNCHANGED <<Shared, blocks, lock, pc>>

FreeLock(t) ==
    /\ pc = "ready" /\ test[t].pc = "free_lock"
    /\ lock = 0
    /\ lock' = t
    /\ Goes(t, [test[t] EXCEPT !.pc = "free_body"])
    /\ UNCHANGED <<Shared, blocks, pc>>

\* Lines 291-299.
FreeBody(t) ==
    /\ pc = "ready" /\ test[t].pc = "free_body"
    /\ \E current_block \in get_block(blocks, first_block, test[t].own) :
          CASE current_block = Fault ->
                 /\ pc' = "fault"
                 /\ UNCHANGED <<blocks, lock, test>>
            [] current_block = NULL ->
                 /\ Returns(t, NullPtr)
                 /\ lock' = 0
                 /\ UNCHANGED <<blocks, pc>>
            [] OTHER ->
                 /\ blocks' = free_body(blocks, current_block)
                 /\ Returns(t, NullPtr)
                 /\ lock' = 0
                 /\ UNCHANGED pc
    /\ UNCHANGED Shared

\* Line 312 rounds the size before the mutex is taken.
BeginResize(t) ==
    /\ pc = "ready" /\ test[t].pc = "idle"
    /\ test[t].own # NullPtr /\ test[t].calls < MaxCalls
    /\ \E n \in ThreadSizes :
          Goes(t, [test[t] EXCEPT !.pc = "resize_lock", !.call = "resize",
                                  !.size = round8(n), !.calls = @ + 1])
    /\ UNCHANGED <<Shared, blocks, lock, pc>>

ResizeLock(t) ==
    /\ pc = "ready" /\ test[t].pc = "resize_lock"
    /\ lock = 0
    /\ lock' = t
    /\ Goes(t, [test[t] EXCEPT !.pc = "resize_body"])
    /\ UNCHANGED <<Shared, blocks, pc>>

\* Lines 314-329: get_block, the speculative merge, then the split in place
\* and the unlock of line 339, or the call of mem_alloc at line 330, which is
\* entered with the mutex held.
ResizeBody(t) ==
    /\ pc = "ready" /\ test[t].pc = "resize_body"
    /\ \E current_block \in get_block(blocks, first_block, test[t].own) :
          CASE current_block = Fault ->
                 /\ pc' = "fault"
                 /\ UNCHANGED <<blocks, lock, test>>
            [] current_block = NULL ->
                 /\ Returns(t, test[t].own)
                 /\ lock' = 0
                 /\ UNCHANGED <<blocks, pc>>
            [] OTHER ->
                 LET b1 == [blocks EXCEPT ![current_block].free = 1]
                     b2 == merge_mem(b1, current_block, b1[current_block].next)
                 IN  IF b2[current_block].size >= test[t].size
                     THEN /\ blocks' = split_mem(b2, current_block, test[t].size)
                          /\ HeapFits(blocks')
                          /\ Returns(t, b2[current_block].ptr)
                          /\ lock' = 0
                          /\ UNCHANGED pc
                     ELSE /\ blocks' = b2
                          /\ Goes(t, [test[t] EXCEPT !.pc = "alloc_head"])
                          /\ UNCHANGED <<lock, pc>>
    /\ UNCHANGED Shared

\* A call in progress takes its next step.
RunsAllocFree(t) == AllocHead(t) \/ AllocScan(t) \/ AllocRet(t) \/ FreeBody(t)
Runs(t) == RunsAllocFree(t) \/ ResizeBody(t)

\* A thread takes the mutex.
LocksAllocFree(t) == AllocLock(t) \/ FreeLock(t)
Locks(t) == LocksAllocFree(t) \/ ResizeLock(t)

ThreadAlloc == \E t \in Threads : BeginAlloc(t)
ThreadFree == \E t \in Threads : BeginFree(t)
ThreadResize == \E t \in Threads : BeginResize(t)
ThreadRuns == \E t \in Threads : Runs(t)
ThreadLocks == \E t \in Threads : Locks(t)

NextThreads == ThreadAlloc \/ ThreadFree \/ ThreadResize \/ ThreadRuns \/ ThreadLocks

SpecThreads == InitThreads /\ [][NextThreads]_vars

\* ------------------------------------------------------------------ C12
\* C12: no thread is ever at a pthread_mutex_lock while it holds the mutex.
C12_NoNestedAcquisition ==
    \A t \in Threads : ~(test[t].pc \in {"alloc_lock", "free_lock", "resize_lock"} /\ lock = t)

\* ------------------------------------------------------------------ C13
\* C13: a thread at a statement of mem_alloc, mem_free or mem_resize that
\* reads or writes first_block or a descriptor field holds the mutex.
ReadsDirectory == {"alloc_head", "alloc_scan", "alloc_ret", "free_body", "resize_body"}

C13_LockHeldForScan ==
    \A t \in Threads : test[t].pc \in ReadsDirectory => lock = t

\* ------------------------------------------------------------------ C14
\* The concurrency test: every thread runs cycles of mem_alloc followed by
\* mem_free of the pointer it got.
CycleRuns == \E t \in Threads : RunsAllocFree(t)
CycleLocks == \E t \in Threads : LocksAllocFree(t)

NextCycles == ThreadAlloc \/ ThreadFree \/ CycleRuns \/ CycleLocks

SpecCycles == InitThreads /\ [][NextCycles]_vars

AllIdle == \A t \in Threads : test[t].pc = "idle"

\* C14: under every interleaving no call faults, no two threads own the same
\* pointer, the partition holds whenever all threads are between calls, and
\* once every thread has freed its pointer the pool is one free descriptor
\* of the full capacity.
C14_ThreadsKeepPool ==
    /\ pc = "ready"
    /\ \A t, u \in Threads :
          (t # u /\ test[t].own # NullPtr) => test[t].own # test[u].own
    /\ AllIdle => Partitions(Chain, m_size)
    /\ (AllIdle /\ m_size > 0 /\ \A t \in Threads : test[t].own = NullPtr) =>
          /\ Len(Chain) = 1
          /\ Chain[1].free = 1
          /\ Chain[1].size = m_size

\* ------------------------------------------------------------------ C16
\* Fair scheduling: a call in progress keeps taking steps, and a thread that
\* waits for the mutex gets it if it is free again and again.
SpecThreadsFair ==
    /\ SpecThreads
    /\ \A t \in Threads : WF_vars(Runs(t)) /\ SF_vars(Locks(t))

\* C16: every call a thread has started returns, with the mutex not held by
\* that thread.
C16_EveryCallReturns ==
    \A t \in Threads :
        (test[t].pc # "idle") ~> (test[t].pc = "idle" /\ lock # t)

\* ------------------------------------------------------------------ C15
\* C15: whenever no call is in flight the bases along the chain are strictly
\* increasing: no two descriptors share a base.
C15_StrictlyIncreasingBases ==
    pc = "ready" => \A i \in 1..(Len(Chain) - 1) : Chain[i].ptr < Chain[i + 1].ptr

\* ------------------------------------------------------------------ C17
\* The descriptor i of the chain is allocated, cannot take `size` bytes even
\* with a free successor, and some free descriptor can.
MustRelocate(c, i, size) ==
    /\ c[i].free = 0
    /\ c[i].size + (IF i < Len(c) /\ c[i + 1].free = 1 THEN c[i + 1].size ELSE 0) < size
    /\ Fits(c, size) # {}

\* C17: a mem_resize(p, n) that cannot grow p in place while a free descriptor
\* holds the rounded n returns a pointer q other than p to an allocated
\* descriptor of the rounded n, has copied to q, from p, as many bytes as the
\* block had before the call, and leaves nothing allocated at p.
C17_RelocationCopies ==
    \A i \in At(PreChain, last.ptr) :
        (last.op = "resize" /\ MustRelocate(PreChain, i, round8(last.size))) =>
            /\ pc = "ready"
            /\ last.ret \notin {NullPtr, last.ptr}
            /\ \E j \in At(Chain, last.ret) :
                  Chain[j].free = 0 /\ Chain[j].size = round8(last.size)
            /\ last.copy = <<last.ret, last.ptr, PreChain[i].size>>
            /\ \A j \in At(Chain, last.ptr) : Chain[j].free = 1

\* ------------------------------------------------------------------ C18
\* Every next of the chain is answered by the prev of the descriptor it names.
LinksConsistent(dir) ==
    /\ dir.first # NULL => dir.blocks[dir.first].prev = NULL
    /\ \A b \in DOMAIN dir.blocks :
          dir.blocks[b].next # NULL => dir.blocks[dir.blocks[b].next].prev = b

Same(a, b) == a.ptr = b.ptr /\ a.size = b.size /\ a.free = b.free

\* The chain `c` is the chain `d` after the free descriptor k of `d` was
\* allocated with `size` bytes: nothing else changed, and the remainder, if
\* any, is one new free descriptor right after it.
AllocatedAt(c, d, k, size) ==
    /\ d[k].free = 1
    /\ Same(c[k], [d[k] EXCEPT !.free = 0, !.size = size])
    /\ \A i \in 1..(k - 1) : Same(c[i], d[i])
    /\ IF d[k].size = size
       THEN /\ Len(c) = Len(d)
            /\ \A i \in (k + 1)..Len(d) : Same(c[i], d[i])
       ELSE /\ Len(c) = Len(d) + 1
            /\ Same(c[k + 1], [ptr |-> d[k].ptr + size, size |-> d[k].size - size, free |-> 1])
            /\ \A i \in (k + 1)..Len(d) : Same(c[i + 1], d[i])

\* C18 as written: on a fit the selected descriptor becomes allocated with
\* exactly the size the caller asked for.
C18_AllocFrameExact ==
    (Completed("alloc") /\ last.ret # NullPtr) =>
        /\ \E k \in 1..Len(PreChain) : AllocatedAt(Chain, PreChain, k, last.size)
        /\ LinksConsistent(Directory)

\* C18, amended: on a fit the selected descriptor becomes allocated with the
\* size mem_alloc searched for (the request rounded up to a multiple of 8 in
\* variant 1, the request itself in variant 2); a remainder becomes one new
\* free descriptor spliced in right after it, with consistent links; every
\* other descriptor is unchanged.
C18_AllocFrame ==
    (Completed("alloc") /\ last.ret # NullPtr) =>
        /\ \E k \in 1..Len(PreChain) :
              AllocatedAt(Chain, PreChain, k, alloc_size(variant, last.size))
        /\ LinksConsistent(Directory)

\* mem_alloc has split a free descriptor that had a successor.
C18_Witness ==
    /\ Completed("alloc") /\ last.ret # NullPtr
    /\ Len(Chain) = Len(PreChain) + 1
    /\ \E k \in 1..(Len(PreChain) - 1) : PreChain[k].ptr = last.ret /\ PreChain[k].free = 1

\* ------------------------------------------------------------------ C19
\* C19: mem_alloc never returns the base of a descriptor that was allocated
\* when the call began.
C19_NoAliasing ==
    (Completed("alloc") /\ last.ret # NullPtr) => ~PreAllocatedAt(last.ret)

\* ------------------------------------------------------------------ C20
\* C20: a mem_alloc(n) or mem_resize(p, n) that returns a pointer leaves an
\* allocated descriptor of at least n bytes at it.
C20_GrantedSizeCoversRequest ==
    (pc = "ready" /\ last.op \in {"alloc", "resize"} /\ last.ret # NullPtr) =>
        \E j \in At(Chain, last.ret) : Chain[j].free = 0 /\ Chain[j].size >= last.size

\* ------------------------------------------------------------------ C21
\* The shrink test: on a fresh pool, after at most one other allocation,
\* p = mem_alloc(m) succeeds; after at most one more allocation the caller
\* resizes p to some n <= m.
TestShrinkInit ==
    /\ test.step = 0
    /\ \E size \in PoolSizes : mem_init(size)
    /\ test' = [step |-> 1, p |-> NullPtr, m |-> 0]

TestShrinkBefore ==
    /\ test.step = 1
    /\ \E size \in ReqSizes : mem_alloc(size)
    /\ test' = [test EXCEPT !.step = 2]

TestShrinkAlloc ==
    /\ test.step \in {1, 2}
    /\ \E m \in ReqSizes :
          /\ mem_alloc(m)
          /\ last'.ret # NullPtr
          /\ test' = [step |-> 3, p |-> last'.ret, m |-> m]

TestShrinkAfter ==
    /\ test.step = 3
    /\ \E size \in ReqSizes : mem_alloc(size)
    /\ test' = [test EXCEPT !.step = 4]

TestShrinkResize ==
    /\ test.step \in {3, 4}
    /\ \E n \in {k \in ReqSizes : k <= test.m} : mem_resize(test.p, n)
    /\ test' = [test EXCEPT !.step = 5]

NextShrink ==
    \/ TestShrinkInit \/ TestShrinkBefore \/ TestShrinkAlloc
    \/ TestShrinkAfter \/ TestShrinkResize

SpecShrink == Init /\ [][NextShrink]_vars

\* C21: the mem_resize(p, n) of the shrink test returns, and returns p.
C21_ShrinkStaysInPlace ==
    test.step = 5 => (pc = "ready" /\ last.ret = test.p)
====
